---- MODULE Spec2Model ----
(***************************************************************************)
(* json-px: JSON Pointer evaluation (pointer.ts), the helpers (helpers.ts) *)
(* and the JSON Patch operations add, remove, replace, move, copy, test,   *)
(* apply and applyPatch (patch.ts).                                        *)
(*                                                                         *)
(* JavaScript strings are sequences of one-character strings, so that      *)
(* split, join and the escape substitutions are computed character by      *)
(* character.  A JSON value is a record [t, v]: t is the runtime shape and *)
(* v the payload (a number, a boolean, a character sequence, a sequence of *)
(* values for an Array, a function from keys to values for an Object).     *)
(*                                                                         *)
(* Objects and Arrays have identity.  The heap is a sequence of trees, one *)
(* per root container ever created; a JavaScript value is either a         *)
(* primitive (by value) or a reference [root, at]: the container reached   *)
(* from root heap[root] by the steps at.  Writes go through a reference,   *)
(* so an edit of a container that was not cloned is an edit of the         *)
(* caller's tree.  Sharing of sub-containers between two different roots   *)
(* is not tracked: a container stored into another root is stored by       *)
(* value.                                                                  *)
(***************************************************************************)
EXTENDS Integers, Sequences, FiniteSets, TLC

VARIABLES heap, call, pc, patch, nhooks, acc, applied, hk, log

vars == <<heap, call, pc, patch, nhooks, acc, applied, hk, log>>

(***************************************************************************)
(* Bounds of the model.                                                    *)
(***************************************************************************)
MaxOps == 3
MaxHooks == 2
MaxTokenLen == 3

(***************************************************************************)
(* JSON values.                                                            *)
(***************************************************************************)
Undef == [t |-> "undef", v |-> 0]
Null == [t |-> "null", v |-> 0]
Num(n) == [t |-> "num", v |-> n]
Bool(b) == [t |-> "bool", v |-> b]
Str(s) == [t |-> "str", v |-> s]
Arr(s) == [t |-> "arr", v |-> s]
Obj(f) == [t |-> "obj", v |-> f]
EmptyObj == Obj(<<>>)

IsContainer(x) == x.t \in {"obj", "arr"}

\* A reference to the container reached from heap[root] by the steps at.
\* A step is [key, idx]: an Object member name (idx = 0) or a 1-based
\* Array position (key = <<>>).
Ref(root, at) == [t |-> "ref", v |-> [root |-> root, at |-> at]]
KeyStep(k) == [key |-> k, idx |-> 0]
IdxStep(i) == [key |-> <<>>, idx |-> i]

RECURSIVE GetAt(_, _)
GetAt(tree, at) ==
  IF at = <<>> THEN tree
  ELSE IF Head(at).idx = 0 THEN GetAt(tree.v[Head(at).key], Tail(at))
  ELSE GetAt(tree.v[Head(at).idx], Tail(at))

RECURSIVE SetAt(_, _, _)
SetAt(tree, at, new) ==
  IF at = <<>> THEN new
  ELSE IF Head(at).idx = 0
    THEN Obj([tree.v EXCEPT ![Head(at).key] = SetAt(@, Tail(at), new)])
    ELSE Arr([tree.v EXCEPT ![Head(at).idx] = SetAt(@, Tail(at), new)])

\* The tree a JavaScript value denotes.
Deref(h, x) == IF x.t = "ref" THEN GetAt(h[x.v.root], x.v.at) ELSE x

\* The JavaScript value for a sub-tree sub found at reference r by step st.
Child(r, st, sub) ==
  IF IsContainer(sub) THEN Ref(r.v.root, Append(r.v.at, st)) ELSE sub

\* A new root container holding tree; the heap grows by one.
Alloc(h, tree) == [heap |-> Append(h, tree), ref |-> Ref(Len(h) + 1, <<>>)]

\* The write of tree new over the container at reference r.
Store(h, r, new) == [h EXCEPT ![r.v.root] = SetAt(@, r.v.at, new)]

(***************************************************************************)
(* Outcomes: a call returns a value or throws an error [kind, arg].  kind  *)
(* names the message of the throw statement, arg the text interpolated     *)
(* into it (a token, a pointer, an index in decimal).                      *)
(***************************************************************************)
NoErr == [kind |-> "", arg |-> <<>>]
Error(kind, arg) == [kind |-> kind, arg |-> arg]
Return(val) == [ok |-> TRUE, err |-> NoErr, val |-> val]
Throw(kind, arg) == [ok |-> FALSE, err |-> Error(kind, arg), val |-> Undef]

\* The element of a one-element set: Only({e(x) : x \in {a}}) is e(a) with
\* a computed once, as a const declaration computes its value once.
Only(S) == CHOOSE x \in S : TRUE

(***************************************************************************)
(* Strings.                                                                *)
(***************************************************************************)
Digit == <<"0", "1", "2", "3", "4", "5", "6", "7", "8", "9">>

DigitValue(c) == (CHOOSE i \in 1..10 : Digit[i] = c) - 1

\* /^\d+$/.test(token)
IsDigits(token) ==
  /\ Len(token) > 0
  /\ \A i \in 1..Len(token) : \E d \in 1..10 : Digit[d] = token[i]

\* parseInt(token, 10) and Number(token) of an all-digits token
RECURSIVE parseInt(_)
parseInt(token) ==
  IF token = <<>> THEN 0
  ELSE 10 * parseInt(SubSeq(token, 1, Len(token) - 1)) + DigitValue(token[Len(token)])

\* `${index}`: the decimal text of a natural number
RECURSIVE Decimal(_)
Decimal(n) ==
  IF n < 10 THEN <<Digit[n + 1]>> ELSE Append(Decimal(n \div 10), Digit[(n % 10) + 1])

\* str.replace(/pat/g, rep): left to right, the replacement is not rescanned
RECURSIVE ReplaceAll(_, _, _)
ReplaceAll(str, pat, rep) ==
  IF Len(str) < Len(pat) THEN str
  ELSE IF SubSeq(str, 1, Len(pat)) = pat
    THEN rep \o ReplaceAll(SubSeq(str, Len(pat) + 1, Len(str)), pat, rep)
    ELSE <<Head(str)>> \o ReplaceAll(Tail(str), pat, rep)

\* pointer.split('/')
RECURSIVE Split(_)
Split(str) ==
  IF \A i \in 1..Len(str) : str[i] # "/" THEN <<str>>
  ELSE LET i == CHOOSE j \in 1..Len(str) :
                  str[j] = "/" /\ \A m \in 1..(j - 1) : str[m] # "/"
       IN <<SubSeq(str, 1, i - 1)>> \o Split(SubSeq(str, i + 1, Len(str)))

\* paths.join('/')
RECURSIVE Join(_)
Join(paths) ==
  IF paths = <<>> THEN <<>>
  ELSE IF Len(paths) = 1 THEN paths[1]
  ELSE paths[1] \o <<"/">> \o Join(Tail(paths))

(***************************************************************************)
(* helpers.ts                                                              *)
(***************************************************************************)
isObjectOrArray(h, x) == x.t = "ref" /\ Deref(h, x).t \in {"obj", "arr"}

\* typeof t === 'object' && !Array.isArray(t) && t !== null
isObject(h, x) == x.t = "ref" /\ Deref(h, x).t = "obj"

isArray(h, x) == x.t = "ref" /\ Deref(h, x).t = "arr"

escapeToken(str) == ReplaceAll(ReplaceAll(str, <<"~">>, <<"~", "0">>), <<"/">>, <<"~", "1">>)

\* unescapeToken with the two substitutions in the other order
unescapeTokenTildeFirst(str) ==
  ReplaceAll(ReplaceAll(str, <<"~", "0">>, <<"~">>), <<"~", "1">>, <<"/">>)

unescapeToken(str) == ReplaceAll(ReplaceAll(str, <<"~", "1">>, <<"/">>), <<"~", "0">>, <<"~">>)

\* interpretPath(pointer).paths
interpretPath(pointer) ==
  LET parts == Split(pointer) IN [i \in 1..Len(parts) |-> unescapeToken(parts[i])]

\* typeof x
TypeOf(x) ==
  CASE x.t \in {"null", "arr", "obj", "ref"} -> "object"
    [] x.t = "undef" -> "undefined"
    [] x.t = "num" -> "number"
    [] x.t = "bool" -> "boolean"
    [] x.t = "str" -> "string"

\* isEqual without the comparison of the lengths of two arrays
isEqualNoLength(a, b) ==
  IF a.t = "arr" /\ b.t = "arr"
    THEN \A idx \in 1..Len(a.v) : idx <= Len(b.v) /\ a.v[idx] = b.v[idx]
    ELSE a.t = b.t /\ a.v = b.v

\* isEqual on the trees two values denote (two distinct containers unless
\* the trees are primitives)
RECURSIVE isEqual(_, _)
isEqual(a, b) ==
  \* a === b
  IF ~IsContainer(a) /\ a.t = b.t /\ a.v = b.v THEN TRUE
  ELSE IF TypeOf(a) # TypeOf(b) THEN FALSE
  ELSE IF a.t = "arr" THEN
    IF b.t # "arr" THEN FALSE
    ELSE IF Len(a.v) # Len(b.v) THEN FALSE
    ELSE \A idx \in 1..Len(a.v) : isEqual(a.v[idx], b.v[idx])
  ELSE IF a.t = "obj" /\ b.t = "obj" THEN
    IF Cardinality(DOMAIN a.v) # Cardinality(DOMAIN b.v) THEN FALSE
    ELSE \A key \in DOMAIN a.v : key \in DOMAIN b.v /\ isEqual(a.v[key], b.v[key])
  ELSE FALSE

(***************************************************************************)
(* pointer.ts                                                              *)
(***************************************************************************)
\* !acc is false
Truthy(x) ==
  CASE x.t \in {"ref", "obj", "arr"} -> TRUE
    [] x.t = "num" -> x.v # 0
    [] x.t = "str" -> x.v # <<>>
    [] x.t = "bool" -> x.v
    [] OTHER -> FALSE

\* The reducer of evaluate over the tokens after the leading empty one.
RECURSIVE Walk(_, _, _, _)
Walk(h, cur, tokens, pointer) ==
  IF tokens = <<>> THEN Return(cur)
  ELSE LET token == Head(tokens) IN
    IF ~Truthy(cur) THEN Throw("UnresolvedPointer", pointer)
    ELSE IF isArray(h, cur) THEN
      LET a == Deref(h, cur).v IN
      IF token = <<"-">> THEN Throw("InvalidArrayReference", <<>>)
      ELSE IF ~IsDigits(token) THEN Throw("InvalidArrayIndex", token)
      ELSE LET index == parseInt(token) IN
        IF index >= Len(a) THEN Throw("ArrayIndexOutOfBounds", Decimal(index))
        ELSE Walk(h, Child(cur, IdxStep(index + 1), a[index + 1]), Tail(tokens), pointer)
    ELSE IF isObject(h, cur) THEN
      LET o == Deref(h, cur).v IN
      IF token \notin DOMAIN o THEN Throw("KeyNotFound", token)
      ELSE Walk(h, Child(cur, KeyStep(token), o[token]), Tail(tokens), pointer)
    ELSE Throw("UnresolvableToken", token)

\* evaluate(object, pointer), on any two JavaScript values
evaluate(h, object, pointer) ==
  IF pointer.t # "str" THEN Throw("TypeError", <<>>)
  ELSE Only({IF ~isObject(h, object) THEN Throw("RootNotObject", <<>>)
             ELSE IF paths[1] # <<>> THEN Throw("InvalidPointer", pointer.v)
             ELSE IF Len(paths) = 1 THEN Return(object)
             ELSE Walk(h, object, Tail(paths), pointer.v) :
               paths \in {interpretPath(pointer.v)}})

(***************************************************************************)
(* patch.ts.  An operation returns [heap, ok, err, val]: the heap after    *)
(* the call with the outcome of the call.                                  *)
(***************************************************************************)
Done(h, val) == [heap |-> h, ok |-> TRUE, err |-> NoErr, val |-> val]
Fail(h, err) == [heap |-> h, ok |-> FALSE, err |-> err, val |-> Undef]

\* An operation object; the members an operation kind does not have are
\* empty (path, from) or undefined (value).
Op(kind, from, path, value) == [op |-> kind, from |-> from, path |-> path, value |-> value]

ValueKey == <<"v", "a", "l", "u", "e">>

\* structuredClone(object): a deep copy, a new root for a container
structuredClone(h, object) ==
  IF object.t = "ref"
    THEN LET n == Alloc(h, Deref(h, object)) IN [heap |-> n.heap, val |-> n.ref]
    ELSE [heap |-> h, val |-> object]

\* array.splice(index, 0, value)
InsertAt(a, index, value) ==
  SubSeq(a, 1, index) \o <<value>> \o SubSeq(a, index + 1, Len(a))

\* array.splice(index, 1)
RemoveAt(a, index) ==
  SubSeq(a, 1, index) \o SubSeq(a, index + 2, Len(a))

\* add, after the clone and the checks of the pointer: target is what
\* evaluate returned for the pointer without its last token
addAt(h, objectClone, operation, lastEl, target) ==
  IF ~target.ok THEN Fail(h, target.err)
  ELSE IF lastEl = <<"-">> THEN
    IF ~isArray(h, target.val) THEN Fail(h, Error("AddNonArrayTarget", <<>>))
    ELSE Done(Store(h, target.val,
                    Arr(Append(Deref(h, target.val).v, Deref(h, operation.value)))),
              objectClone)
  ELSE IF IsDigits(lastEl) THEN
    IF ~isArray(h, target.val) THEN Fail(h, Error("AddNonArrayTarget", <<>>))
    ELSE IF Len(Deref(h, target.val).v) < parseInt(lastEl)
      THEN Fail(h, Error("IndexTooLarge", lastEl))
    ELSE Done(Store(h, target.val,
                    Arr(InsertAt(Deref(h, target.val).v, parseInt(lastEl),
                                 Deref(h, operation.value)))),
              objectClone)
  ELSE IF isObject(h, target.val) THEN
    Done(Store(h, target.val,
               Obj((lastEl :> Deref(h, operation.value)) @@ Deref(h, target.val).v)),
         objectClone)
  ELSE Fail(h, Error("InvalidAddOperation", operation.path))

\* add, after the clone: paths are the tokens of operation.path
addTo(h, objectClone, operation, paths) ==
  IF paths[1] # <<>> THEN Fail(h, Error("InvalidPointer", operation.path))
  ELSE IF Len(paths) = 1
    THEN Only({Done(n.heap, n.ref) :
                 n \in {Alloc(h, Obj(ValueKey :> Deref(h, operation.value)))}})
  ELSE IF paths[Len(paths)] = <<>>
    THEN Fail(h, Error("InvalidLastToken", operation.path))
  \* evaluate(maybeValidPath.join('/'), objectClone)
  ELSE Only({addAt(h, objectClone, operation, paths[Len(paths)], target) :
               target \in {evaluate(h, Str(Join(SubSeq(paths, 1, Len(paths) - 1))),
                                    objectClone)}})

\* add without the clone: the edits, and the member 'value' of the root
\* case, are made on the document the caller passed
addInPlace(h, object, operation) ==
  Only({IF paths[1] = <<>> /\ Len(paths) = 1 /\ isObject(h, object)
          THEN Done(Store(h, object,
                          Obj((ValueKey :> Deref(h, operation.value)) @@ Deref(h, object).v)),
                    object)
          ELSE addTo(h, object, operation, paths) :
        paths \in {interpretPath(operation.path)}})

add(h, object, operation) ==
  Only({addTo(c.heap, c.val, operation, paths) :
          c \in {structuredClone(h, object)},
          paths \in {interpretPath(operation.path)}})

\* remove, after the clone and the checks of the pointer
removeAt(h, objectClone, operation, lastEl, target) ==
  IF ~target.ok THEN Fail(h, target.err)
  ELSE IF IsDigits(lastEl) THEN
    IF ~isArray(h, target.val) THEN Fail(h, Error("RemoveNonArrayTarget", <<>>))
    ELSE IF \/ parseInt(lastEl) >= Len(Deref(h, target.val).v)
            \/ ~Truthy(Deref(h, target.val).v[parseInt(lastEl) + 1])
      THEN Fail(h, Error("RemoveNonExistentElement", <<>>))
    ELSE Done(Store(h, target.val, Arr(RemoveAt(Deref(h, target.val).v, parseInt(lastEl)))),
              objectClone)
  ELSE IF isObject(h, target.val) THEN
    IF lastEl \notin DOMAIN Deref(h, target.val).v
      THEN Fail(h, Error("RemoveUndefinedMember", <<>>))
    ELSE Done(Store(h, target.val,
                    Obj([key \in (DOMAIN Deref(h, target.val).v) \ {lastEl} |->
                           Deref(h, target.val).v[key]])),
              objectClone)
  ELSE Fail(h, Error("InvalidRemoveOperation", operation.path))

\* remove, after the clone: object is the document passed in
removeFrom(h, object, objectClone, operation, paths) ==
  IF paths[1] # <<>> THEN Fail(h, Error("InvalidPointer", operation.path))
  ELSE IF Len(paths) = 1
    THEN Only({Done(n.heap, n.ref) : n \in {Alloc(h, EmptyObj)}})
  ELSE IF paths[Len(paths)] = <<>> THEN Done(h, object)
  ELSE IF paths[Len(paths)] = <<"-">>
    THEN Fail(h, Error("InvalidRemovePointer", operation.path))
  \* evaluate(maybeValidPath.join('/'), objectClone)
  ELSE Only({removeAt(h, objectClone, operation, paths[Len(paths)], target) :
               target \in {evaluate(h, Str(Join(SubSeq(paths, 1, Len(paths) - 1))),
                                    objectClone)}})

remove(h, object, operation) ==
  Only({removeFrom(c.heap, object, c.val, operation, paths) :
          c \in {structuredClone(h, object)},
          paths \in {interpretPath(operation.path)}})

replace(h, object, operation) ==
  Only({IF ~r.ok THEN r ELSE add(r.heap, r.val, operation) :
          r \in {remove(h, object, operation)}})

\* move, with the value read at from
moveValue(h, object, operation, value) ==
  IF ~value.ok THEN Fail(h, value.err)
  ELSE Only({IF ~r.ok THEN r
             ELSE Only({add(r.heap, r.val, op) :
                          op \in {Op("add", <<>>, operation.path, value.val)}}) :
               r \in {remove(h, object, Op("remove", <<>>, operation.from, Undef))}})

move(h, object, operation) ==
  \* evaluate(operation.from, object)
  Only({moveValue(h, object, operation, value) :
          value \in {evaluate(h, Str(operation.from), object)}})

test(h, object, operation) ==
  \* evaluate(operation.path, object)
  Only({IF ~evaluateValue.ok THEN Fail(h, evaluateValue.err)
        ELSE IF ~isEqual(Deref(h, evaluateValue.val), Deref(h, operation.value))
          THEN Fail(h, Error("TestMismatch", <<>>))
        ELSE Done(h, object) :
          evaluateValue \in {evaluate(h, Str(operation.path), object)}})

copy(h, object, operation) ==
  IF operation.from = operation.path THEN Done(h, object)
  \* evaluate(operation.from, object)
  ELSE Only({IF ~value.ok THEN Fail(h, value.err)
             ELSE Only({add(h, object, op) :
                          op \in {Op("add", operation.from, operation.path, value.val)}}) :
               value \in {evaluate(h, Str(operation.from), object)}})

apply(h, object, operation) ==
  CASE operation.op = "add" -> add(h, object, operation)
    [] operation.op = "remove" -> remove(h, object, operation)
    [] operation.op = "copy" -> copy(h, object, operation)
    [] operation.op = "replace" -> replace(h, object, operation)
    [] operation.op = "move" -> move(h, object, operation)
    [] operation.op = "test" -> test(h, object, operation)
    [] OTHER -> Done(h, object)

(***************************************************************************)
(* The inputs of the calls: documents, pointers, values and operations.    *)
(***************************************************************************)
\* {foo: 'bar'}
DocFoo == Obj(<<"f", "o", "o">> :> Str(<<"b", "a", "r">>))

\* {a: 1, b: {c: 2, d: [3, 4]}, e: [5, 6]}
DocInitial == Obj(<<"a">> :> Num(1) @@ <<"b">> :> Obj(<<"c">> :> Num(2) @@ <<"d">> :> Arr(<<Num(3), Num(4)>>)) @@ <<"e">> :> Arr(<<Num(5), Num(6)>>))

\* {a: 0, f: false, s: '', n: null, t: true, x: 'hi', e: [0, [7]]}
DocFalsy == Obj(<<"a">> :> Num(0) @@ <<"f">> :> Bool(FALSE) @@ <<"s">> :> Str(<<>>) @@ <<"n">> :> Null @@ <<"t">> :> Bool(TRUE) @@ <<"x">> :> Str(<<"h", "i">>) @@ <<"e">> :> Arr(<<Num(0), Arr(<<Num(7)>>)>>))

\* {'': 1, 'a/b': {k: 2}, '~': {c: 3}, '~1': 4}
DocKeys == Obj(<<>> :> Num(1) @@ <<"a", "/", "b">> :> Obj(<<"k">> :> Num(2)) @@ <<"~">> :> Obj(<<"c">> :> Num(3)) @@ <<"~", "1">> :> Num(4))

\* {}
DocEmpty == EmptyObj

\* [1, {a: 2}]
DocArray == Arr(<<Num(1), Obj(<<"a">> :> Num(2))>>)

\* 42
DocNumber == Num(42)

\* 'ab'
DocString == Str(<<"a", "b">>)

\* null
DocNull == Null

\* undefined
DocUndefined == Undef

Docs == <<DocFoo, DocInitial, DocFalsy, DocKeys, DocEmpty, DocArray, DocNumber, DocString, DocNull, DocUndefined>>

\* '', '/', '/a', '/foo', '/baz', '/b/c', '/b/d/1', '/b/d/01', '/b/d/-', '/b/d/x', '/b/d/9', '/b/newKey', '/e/0', '/e/1/0', '/a/x', '/f/x', '/s/x', '/n/x', '/t/x', '/x/y', '/nonexistent', '/a~1b', '/~0/c', 'a', '/0', '/1/a', '/~0', '/~01'
Pointers ==
  << <<>>,
     <<"/">>,
     <<"/", "a">>,
     <<"/", "f", "o", "o">>,
     <<"/", "b", "a", "z">>,
     <<"/", "b", "/", "c">>,
     <<"/", "b", "/", "d", "/", "1">>,
     <<"/", "b", "/", "d", "/", "0", "1">>,
     <<"/", "b", "/", "d", "/", "-">>,
     <<"/", "b", "/", "d", "/", "x">>,
     <<"/", "b", "/", "d", "/", "9">>,
     <<"/", "b", "/", "n", "e", "w", "K", "e", "y">>,
     <<"/", "e", "/", "0">>,
     <<"/", "e", "/", "1", "/", "0">>,
     <<"/", "a", "/", "x">>,
     <<"/", "f", "/", "x">>,
     <<"/", "s", "/", "x">>,
     <<"/", "n", "/", "x">>,
     <<"/", "t", "/", "x">>,
     <<"/", "x", "/", "y">>,
     <<"/", "n", "o", "n", "e", "x", "i", "s", "t", "e", "n", "t">>,
     <<"/", "a", "~", "1", "b">>,
     <<"/", "~", "0", "/", "c">>,
     <<"a">>,
     <<"/", "0">>,
     <<"/", "1", "/", "a">>,
     <<"/", "~", "0">>,
     <<"/", "~", "0", "1">> >>

\* '', '/', '/a', '/foo', '/baz', '/b/c', '/b/newKey', '/e/0', '/e/-', '/b/d/1', '/nonexistent/-', 'a', '/e/1', '/e/9', '/b/0', '/~0/c', '/a~1b/k'
Paths ==
  << <<>>,
     <<"/">>,
     <<"/", "a">>,
     <<"/", "f", "o", "o">>,
     <<"/", "b", "a", "z">>,
     <<"/", "b", "/", "c">>,
     <<"/", "b", "/", "n", "e", "w", "K", "e", "y">>,
     <<"/", "e", "/", "0">>,
     <<"/", "e", "/", "-">>,
     <<"/", "b", "/", "d", "/", "1">>,
     <<"/", "n", "o", "n", "e", "x", "i", "s", "t", "e", "n", "t", "/", "-">>,
     <<"a">>,
     <<"/", "e", "/", "1">>,
     <<"/", "e", "/", "9">>,
     <<"/", "b", "/", "0">>,
     <<"/", "~", "0", "/", "c">>,
     <<"/", "a", "~", "1", "b", "/", "k">> >>

\* 0, 99, 'bar', {key: 'value'}, [3, 4]
Values == <<Num(0), Num(99), Str(<<"b", "a", "r">>), Obj(<<"k", "e", "y">> :> Str(<<"v", "a", "l", "u", "e">>)), Arr(<<Num(3), Num(4)>>)>>

\* the values isEqual compares a document with: the documents themselves,
\* {foo: 'bar', x: 1}, {fox: 'bar'}, {foo: 'baz'}, {a: 1, b: {c: 2, d: [3]},
\* e: [5, 6]}, [1, {a: 2}, 3], [1], [{a: 2}, 1], [1, {a: 3}], [], '42', 'ab',
\* 0, false, '', true
EqualOperands ==
  Docs \o
  << Obj(<<"f", "o", "o">> :> Str(<<"b", "a", "r">>) @@ <<"x">> :> Num(1)),
     Obj(<<"f", "o", "x">> :> Str(<<"b", "a", "r">>)),
     Obj(<<"f", "o", "o">> :> Str(<<"b", "a", "z">>)),
     Obj(<<"a">> :> Num(1) @@ <<"b">> :> Obj(<<"c">> :> Num(2) @@ <<"d">> :> Arr(<<Num(3)>>)) @@ <<"e">> :> Arr(<<Num(5), Num(6)>>)),
     Arr(<<Num(1), Obj(<<"a">> :> Num(2)), Num(3)>>),
     Arr(<<Num(1)>>),
     Arr(<<Obj(<<"a">> :> Num(2)), Num(1)>>),
     Arr(<<Num(1), Obj(<<"a">> :> Num(3))>>),
     Arr(<<>>),
     Str(<<"4", "2">>),
     Num(0),
     Bool(FALSE),
     Str(<<>>),
     Bool(TRUE) >>

\* the characters of a token: the two with a meaning in a pointer, the two
\* digits of the escapes and a letter
TokenChars == {"~", "/", "0", "1", "a"}

\* the strings of at most MaxTokenLen characters
Tokens == UNION {[1..n -> TokenChars] : n \in 0..MaxTokenLen}

\* add /baz 0, remove /foo, test /baz 0 (the three of the README's example),
\* add '' 1, remove '', copy /a to /a, move /foo to /baz
PatchOps ==
  << Op("add", <<>>, <<"/", "b", "a", "z">>, Num(0)),
     Op("remove", <<>>, <<"/", "f", "o", "o">>, Undef),
     Op("test", <<>>, <<"/", "b", "a", "z">>, Num(0)),
     Op("add", <<>>, <<>>, Num(1)),
     Op("remove", <<>>, <<>>, Undef),
     Op("copy", <<"/", "a">>, <<"/", "a">>, Undef),
     Op("move", <<"/", "f", "o", "o">>, <<"/", "b", "a", "z">>, Undef) >>

\* the operation lists of at most MaxOps operations, and the list of the
\* README's example
Patches == UNION {[1..n -> 1..Len(PatchOps)] : n \in 0..MaxOps} \cup {<<1, 2, 3>>}

\* the return values of a hook
HookReturns == <<Undef, EmptyObj>>

(***************************************************************************)
(* The state.  The library keeps no state between calls, so a behaviour is *)
(* one call: the caller holds a document (pc = "idle"), calls a function   *)
(* of the library on it, and the call returns or throws (pc = "done").     *)
(* heap[1] is the caller's document; call is the call, with the tree of    *)
(* the document as it was before the call and, once pc = "done", its       *)
(* outcome.  While applyPatch runs (pc = "patch"): patch is                *)
(* its operation list, nhooks the number of hooks it was given, acc the    *)
(* accumulator of the reduce, applied the number of operations the reducer *)
(* has been called on, hk the number of hooks invoked, log what each hook  *)
(* was invoked with.                                                       *)
(***************************************************************************)
\* The caller's document as a JavaScript value.
D(h) == IF IsContainer(h[1]) THEN Ref(1, <<>>) ELSE h[1]

NoCall ==
  [fn |-> "none", op |-> Op("none", <<>>, <<>>, Undef), before |-> Undef,
   ok |-> FALSE, err |-> NoErr, val |-> Undef]

Completed(fn, op, before, r) ==
  [fn |-> fn, op |-> op, before |-> before, ok |-> r.ok, err |-> r.err, val |-> r.val]

Init ==
  /\ \E i \in 1..Len(Docs) : heap = <<Docs[i]>>
  /\ call = NoCall
  /\ pc = "idle"
  /\ patch = <<>>
  /\ nhooks = 0
  /\ acc = Undef
  /\ applied = 0
  /\ hk = 0
  /\ log = <<>>

NoPatch == UNCHANGED <<patch, nhooks, acc, applied, hk, log>>

\* evaluate(document, pointer)
CallEvaluate ==
  /\ pc = "idle"
  /\ \E p \in 1..Len(Pointers) :
       \E r \in {evaluate(<<heap[1]>>, D(heap), Str(Pointers[p]))} :
          /\ heap' = <<heap[1]>>
          /\ call' = Completed("evaluate", Op("evaluate", <<>>, Pointers[p], Undef), heap[1], r)
  /\ pc' = "done"
  /\ NoPatch

\* escapeToken(str)
CallEscapeToken ==
  /\ pc = "idle"
  /\ \E str \in Tokens :
       call' = Completed("escapeToken", Op("escapeToken", <<>>, str, Undef), heap[1],
                         Return(Str(escapeToken(str))))
  /\ heap' = <<heap[1]>>
  /\ pc' = "done"
  /\ NoPatch

\* unescapeToken(str)
CallUnescapeToken ==
  /\ pc = "idle"
  /\ \E str \in Tokens :
       call' = Completed("unescapeToken", Op("unescapeToken", <<>>, str, Undef), heap[1],
                         Return(Str(unescapeToken(str))))
  /\ heap' = <<heap[1]>>
  /\ pc' = "done"
  /\ NoPatch

\* isEqual(document, b)
CallIsEqual ==
  /\ pc = "idle"
  /\ \E b \in 1..Len(EqualOperands) :
       /\ call' = Completed("isEqual", Op("isEqual", <<>>, <<>>, EqualOperands[b]), heap[1],
                            Return(Bool(isEqual(heap[1], EqualOperands[b]))))
  /\ heap' = <<heap[1]>>
  /\ pc' = "done"
  /\ NoPatch

\* One call of an operation on the caller's document.
CallOp(operation) ==
  /\ \E r \in {apply(<<heap[1]>>, D(heap), operation)} :
       /\ heap' = r.heap
       /\ call' = Completed(operation.op, operation, heap[1], r)
  /\ pc' = "done"
  /\ NoPatch

CallAdd ==
  /\ pc = "idle"
  /\ \E p \in 1..Len(Paths), v \in 1..Len(Values) : CallOp(Op("add", <<>>, Paths[p], Values[v]))

CallRemove ==
  /\ pc = "idle"
  /\ \E p \in 1..Len(Paths) : CallOp(Op("remove", <<>>, Paths[p], Undef))

CallReplace ==
  /\ pc = "idle"
  /\ \E p \in 1..Len(Paths), v \in 1..Len(Values) : CallOp(Op("replace", <<>>, Paths[p], Values[v]))

CallMove ==
  /\ pc = "idle"
  /\ \E f \in 1..Len(Paths), p \in 1..Len(Paths) : CallOp(Op("move", Paths[f], Paths[p], Undef))

CallCopy ==
  /\ pc = "idle"
  /\ \E f \in 1..Len(Paths), p \in 1..Len(Paths) : CallOp(Op("copy", Paths[f], Paths[p], Undef))

CallTest ==
  /\ pc = "idle"
  /\ \E p \in 1..Len(Paths), v \in 1..Len(Values) :
       \/ CallOp(Op("test", <<>>, Paths[p], Values[v]))
       \* the expected value is the value the document holds at the path
       \/ \E e \in {evaluate(<<heap[1]>>, D(heap), Str(Paths[p]))} :
            /\ e.ok
            /\ CallOp(Op("test", <<>>, Paths[p], Deref(heap, e.val)))

\* operations.reduce((object, operation) => apply(object, operation), object)
\* from the k-th operation on: the result, or the first error thrown, with the
\* number of operations the reducer was called on
RECURSIVE reduce(_, _, _, _)
reduce(h, object, operations, k) ==
  IF k > Len(operations)
    THEN [heap |-> h, ok |-> TRUE, err |-> NoErr, val |-> object, applied |-> k - 1]
  ELSE Only({IF r.ok THEN reduce(r.heap, r.val, operations, k + 1)
             ELSE [heap |-> r.heap, ok |-> FALSE, err |-> r.err, val |-> Undef,
                   applied |-> k] :
               r \in {apply(h, object, operations[k])}})

\* applyPatch(document, operations, hooks) is called.
PatchStart ==
  /\ pc = "idle"
  /\ \E ops \in Patches, n \in 0..MaxHooks :
       /\ patch' = [i \in 1..Len(ops) |-> PatchOps[ops[i]]]
       /\ nhooks' = n
  /\ heap' = <<heap[1]>>
  /\ acc' = D(heap')
  /\ call' = [NoCall EXCEPT !.fn = "applyPatch",
                            !.op = Op("applyPatch", <<>>, <<>>, Undef),
                            !.before = heap[1]]
  /\ pc' = "patch"
  /\ applied' = 0
  /\ hk' = 0
  /\ log' = <<>>

\* The reducer with a try/catch around apply: an operation that throws is
\* skipped and the fold goes on with the document it had.
PatchStepCatch ==
  /\ pc = "patch"
  /\ applied < Len(patch)
  /\ \E r \in {apply(heap, acc, patch[applied + 1])} :
       /\ heap' = r.heap
       /\ applied' = applied + 1
       /\ acc' = IF r.ok THEN r.val ELSE acc
  /\ UNCHANGED <<pc, call, patch, nhooks, hk, log>>

\* The reducer of applyPatch on the next operation; an error it throws ends
\* the call.
PatchStep ==
  /\ pc = "patch"
  /\ applied < Len(patch)
  /\ \E r \in {apply(heap, acc, patch[applied + 1])} :
       /\ heap' = r.heap
       /\ applied' = applied + 1
       /\ IF r.ok
            THEN /\ acc' = r.val
                 /\ UNCHANGED <<pc, call>>
            ELSE /\ acc' = Undef
                 /\ pc' = "done"
                 /\ call' = [call EXCEPT !.ok = FALSE, !.err = r.err]
  /\ UNCHANGED <<patch, nhooks, hk, log>>

\* hooks.forEach with a try/catch around the hook: a hook that throws does
\* not end the call.
HookCallCatch ==
  /\ pc = "patch"
  /\ applied = Len(patch)
  /\ hk < nhooks
  /\ hk' = hk + 1
  /\ \E returned \in 1..Len(HookReturns), throws \in BOOLEAN :
       log' = Append(log, [hook |-> hk + 1, object |-> acc, tree |-> Deref(heap, acc),
                           operations |-> patch, throws |-> throws,
                           returned |-> HookReturns[returned]])
  /\ UNCHANGED <<heap, call, pc, patch, nhooks, acc, applied>>

\* hooks.forEach: the next hook is invoked with the result and the
\* operations; it returns any value, or throws and ends the call.
HookCall ==
  /\ pc = "patch"
  /\ applied = Len(patch)
  /\ hk < nhooks
  /\ hk' = hk + 1
  /\ \E returned \in 1..Len(HookReturns), throws \in BOOLEAN :
       /\ log' = Append(log, [hook |-> hk + 1, object |-> acc, tree |-> Deref(heap, acc),
                              operations |-> patch, throws |-> throws,
                              returned |-> HookReturns[returned]])
       /\ IF throws
            THEN /\ pc' = "done"
                 /\ call' = [call EXCEPT !.ok = FALSE,
                                         !.err = Error("HookError", Decimal(hk + 1))]
            ELSE UNCHANGED <<pc, call>>
  /\ UNCHANGED <<heap, patch, nhooks, acc, applied>>

\* return result
PatchReturn ==
  /\ pc = "patch"
  /\ applied = Len(patch)
  /\ hk = nhooks
  /\ pc' = "done"
  /\ call' = [call EXCEPT !.ok = TRUE, !.val = acc]
  /\ UNCHANGED <<heap, patch, nhooks, acc, applied, hk, log>>

Next ==
  \/ CallEvaluate
  \/ CallIsEqual
  \/ CallEscapeToken
  \/ CallUnescapeToken
  \/ CallAdd
  \/ CallRemove
  \/ CallReplace
  \/ CallMove
  \/ CallCopy
  \/ CallTest
  \/ PatchStart
  \/ PatchStep
  \/ HookCall
  \/ PatchReturn

Spec == Init /\ [][Next]_vars

(***************************************************************************)
(* Properties.                                                             *)
(***************************************************************************)
\* The heap and the document value at the start of the call.
Heap0 == <<call.before>>
Doc0 == D(Heap0)

Returned == pc = "done" /\ call.ok
Threw == pc = "done" /\ ~call.ok

\* The tree a completed call returned.
Result == Deref(heap, call.val)

\* Two outcomes [heap, ok, err, val] agree: both return value-for-value equal
\* documents, or both throw the same error.
SameOutcome(a, b) ==
  /\ a.ok = b.ok
  /\ a.err = b.err
  /\ a.ok => Deref(a.heap, a.val) = Deref(b.heap, b.val)

\* The steps by which the tokens lead through tree (the location a pointer
\* that resolves denotes).
RECURSIVE Steps(_, _)
Steps(tree, tokens) ==
  IF tokens = <<>> THEN <<>>
  ELSE IF tree.t = "arr"
    THEN <<IdxStep(parseInt(Head(tokens)) + 1)>>
           \o Steps(tree.v[parseInt(Head(tokens)) + 1], Tail(tokens))
    ELSE <<KeyStep(Head(tokens))>> \o Steps(tree.v[Head(tokens)], Tail(tokens))

\* C1: no call of add, remove, replace, move or copy, and no applyPatch call,
\* changes the document passed in: during the call and after it returned or
\* threw, the caller's document is value for value what it was before.
C1_DocumentUnchanged ==
  call.fn \in {"add", "remove", "replace", "move", "copy", "applyPatch"}
    => heap[1] = call.before

\* An applyPatch call of two operations returned a document that differs
\* from the caller's.
C1_Witness ==
  /\ Returned
  /\ call.fn = "applyPatch"
  /\ applied >= 2
  /\ call.val # D(heap)
  /\ Result # heap[1]

\* C2: applyPatch is fail-fast.  If the k-th operation throws (k is the first
\* operation at which the fold of apply over the list throws), no later
\* operation is applied, no hook is invoked, the document is unchanged, and
\* the call throws that error and returns no document.
C2_FailFast ==
  call.fn = "applyPatch" =>
    \A f \in {reduce(Heap0, Doc0, patch, 1)} :
      ~f.ok =>
        /\ applied <= f.applied
        /\ hk = 0
        /\ log = <<>>
        /\ heap[1] = call.before
        /\ ~call.ok
        /\ call.val = Undef
        /\ pc = "done" => (applied = f.applied /\ call.err = f.err)

\* applyPatch with hooks threw at the second of three operations, after a
\* first one that produced a new document.
C2_Witness ==
  /\ Threw
  /\ call.fn = "applyPatch"
  /\ applied = 2
  /\ Len(patch) = 3
  /\ nhooks > 0
  /\ call.err.kind = "TypeError"
  /\ Len(heap) > 2

\* The document of the README's example and what the example yields.
DocBaz == Obj(<<"b", "a", "z">> :> Num(0))
ReadmePatch == <<PatchOps[1], PatchOps[2], PatchOps[3]>>

\* C3: applyPatch applies the operations in list order, each to the document
\* the previous one produced: a call that returns returns the fold of apply
\* over the list, and add /baz 0, remove /foo, test /baz 0 on {foo: 'bar'}
\* returns {baz: 0}.
C3_OrderedFold ==
  (pc = "done" /\ call.fn = "applyPatch") =>
    /\ call.ok =>
         \A f \in {reduce(Heap0, Doc0, patch, 1)} : f.ok /\ Result = Deref(f.heap, f.val)
    /\ (call.before = DocFoo /\ patch = ReadmePatch /\ nhooks = 0) =>
         (call.ok /\ Result = DocBaz)

\* C4: when every operation succeeds, each hook is invoked once, in list
\* order, after the last operation, with the final document and the
\* operation list; what a hook returns does not change the returned
\* document; the first hook that throws ends the call with its error and no
\* later hook runs.
C4_Hooks ==
  call.fn = "applyPatch" =>
    \A f \in {reduce(Heap0, Doc0, patch, 1)} :
      /\ Len(log) = hk
      /\ hk <= nhooks
      /\ \A i \in 1..Len(log) :
           /\ log[i].hook = i
           /\ applied = Len(patch)
           /\ f.ok
           /\ log[i].object = f.val
           /\ log[i].tree = Deref(f.heap, f.val)
           /\ log[i].operations = patch
           /\ log[i].throws =>
                /\ i = Len(log)
                /\ Threw
                /\ call.err = Error("HookError", Decimal(i))
                /\ call.val = Undef
      /\ Returned =>
           /\ Len(log) = nhooks
           /\ call.val = f.val
           /\ Result = Deref(f.heap, f.val)
      /\ (pc = "done" /\ f.ok /\ Len(log) < nhooks) => (Len(log) > 0 /\ log[Len(log)].throws)

\* applyPatch returned after two operations that succeeded and two hooks, the
\* first of which returned a document.
C4_Witness ==
  /\ Returned
  /\ call.fn = "applyPatch"
  /\ Len(patch) = 2
  /\ Len(log) = 2
  /\ log[1].returned = EmptyObj
  /\ Result # heap[1]

\* C5: test returns the very document it was given when the value at path
\* equals value, throws TestMismatch when it does not, and leaves the
\* document as it was.
C5_Test ==
  (pc = "done" /\ call.fn = "test") =>
    /\ heap[1] = call.before
    /\ \A e \in {evaluate(Heap0, Doc0, Str(call.op.path))} :
         e.ok =>
           IF isEqual(Deref(Heap0, e.val), call.op.value)
             THEN call.ok /\ call.val = D(heap) /\ Len(heap) = 1
             ELSE ~call.ok /\ call.err.kind = "TestMismatch"

\* C6: replace has the outcome of add(remove(D, {path}), {path, value}): on
\* an existing location it returns D with only the value at path replaced,
\* on a location that does not exist it throws the error of remove.
C6_Replace ==
  (pc = "done" /\ call.fn = "replace") =>
    \A e \in {evaluate(Heap0, Doc0, Str(call.op.path))},
       r \in {remove(Heap0, Doc0, call.op)} :
      /\ (e.ok /\ call.op.path # <<>>) =>
           /\ call.ok
           /\ Result = SetAt(call.before,
                             Steps(call.before, Tail(interpretPath(call.op.path))),
                             call.op.value)
      /\ ~e.ok => (~call.ok /\ ~r.ok /\ call.err = r.err)

\* C7: move returns add(remove(D, {path: from}), {path, value}) for the
\* value evaluate(D, from) reads in the original document, and throws when
\* from does not resolve.
C7_Move ==
  (pc = "done" /\ call.fn = "move") =>
    \A v \in {evaluate(Heap0, Doc0, Str(call.op.from))} :
      IF ~v.ok THEN ~call.ok
      ELSE \A r \in {remove(Heap0, Doc0, Op("remove", <<>>, call.op.from, Undef))} :
        IF ~r.ok THEN ~call.ok /\ call.err = r.err
        ELSE SameOutcome(call @@ [heap |-> heap],
                         add(r.heap, r.val, Op("add", <<>>, call.op.path, v.val)))

\* C8: copy with from different from path returns
\* add(D, {path, value: evaluate(D, from)}), with the value still at from,
\* and throws when from does not resolve; with from equal to path it returns
\* the document it was given, without a clone.
C8_Copy ==
  (pc = "done" /\ call.fn = "copy") =>
    IF call.op.from = call.op.path
      THEN call.ok /\ call.val = D(heap) /\ Len(heap) = 1
    ELSE \A v \in {evaluate(Heap0, Doc0, Str(call.op.from))} :
      IF ~v.ok THEN ~call.ok
      ELSE /\ SameOutcome(call @@ [heap |-> heap],
                          add(Heap0, Doc0, Op("add", <<>>, call.op.path, v.val)))
           /\ call.ok =>
                \A w \in {evaluate(heap, call.val, Str(call.op.from))} :
                  w.ok /\ Deref(heap, w.val) = Deref(Heap0, v.val)

\* C9 as stated: evaluate accepts every Object-shaped and every Array-shaped
\* root (it returns the root itself for the pointer '') and throws
\* RootNotObject, for any pointer, exactly when the root is neither.
C9_ObjectOrArrayRoot ==
  (pc = "done" /\ call.fn = "evaluate") =>
    /\ call.err.kind = "RootNotObject" <=> ~IsContainer(call.before)
    /\ (IsContainer(call.before) /\ call.op.path = <<>>) =>
         (call.ok /\ call.val = D(heap))

\* C9, amended: evaluate accepts every Object-shaped root and no other: it
\* returns the root itself for the pointer '' and an Object-shaped root, and
\* throws RootNotObject, for any pointer, exactly when the root is not
\* Object-shaped (a primitive, null, undefined or an Array).
C9_ObjectRoot ==
  (pc = "done" /\ call.fn = "evaluate") =>
    /\ call.err.kind = "RootNotObject" <=> call.before.t # "obj"
    /\ (call.before.t = "obj" /\ call.op.path = <<>>) =>
         (call.ok /\ call.val = D(heap) /\ heap[1] = call.before)

\* evaluate threw RootNotObject for an Array root and the pointer ''.
C9_Witness ==
  /\ Threw
  /\ call.fn = "evaluate"
  /\ call.before.t = "arr"
  /\ call.op.path = <<>>
  /\ call.err.kind = "RootNotObject"

\* The outcome C10 gives for the tokens from the current value cur on: the
\* shape of the current value decides each step, and only a null or undefined
\* current value gives the unresolved-pointer error.
RECURSIVE ByShape(_, _, _)
ByShape(cur, tokens, pointer) ==
  IF tokens = <<>> THEN [ok |-> TRUE, err |-> NoErr, tree |-> cur]
  ELSE IF cur.t = "arr" THEN
    IF Head(tokens) = <<"-">>
      THEN [ok |-> FALSE, err |-> Error("InvalidArrayReference", <<>>), tree |-> Undef]
    ELSE IF ~IsDigits(Head(tokens))
      THEN [ok |-> FALSE, err |-> Error("InvalidArrayIndex", Head(tokens)), tree |-> Undef]
    ELSE IF parseInt(Head(tokens)) >= Len(cur.v)
      THEN [ok |-> FALSE,
            err |-> Error("ArrayIndexOutOfBounds", Decimal(parseInt(Head(tokens)))),
            tree |-> Undef]
    ELSE ByShape(cur.v[parseInt(Head(tokens)) + 1], Tail(tokens), pointer)
  ELSE IF cur.t = "obj" THEN
    IF Head(tokens) \notin DOMAIN cur.v
      THEN [ok |-> FALSE, err |-> Error("KeyNotFound", Head(tokens)), tree |-> Undef]
    ELSE ByShape(cur.v[Head(tokens)], Tail(tokens), pointer)
  ELSE IF cur.t \in {"num", "str", "bool"}
    THEN [ok |-> FALSE, err |-> Error("UnresolvableToken", Head(tokens)), tree |-> Undef]
  ELSE [ok |-> FALSE, err |-> Error("UnresolvedPointer", pointer), tree |-> Undef]

ParentPointer(path) ==
  SubSeq(path, 1, (CHOOSE j \in 1..Len(path) :
                     path[j] = "/" /\ \A m \in (j + 1)..Len(path) : path[m] # "/") - 1)

\* The last token of path and the tokens before it (after the leading
\* empty one).
LastToken(path) == interpretPath(path)[Len(interpretPath(path))]
ParentTokens(path) == SubSeq(interpretPath(path), 2, Len(interpretPath(path)) - 1)

\* A completed call of fn on a path that has a last token.
TokenCall(fn) ==
  /\ pc = "done"
  /\ call.fn = fn
  /\ call.op.path # <<>>
  /\ Head(call.op.path) = "/"

\* The document before the call with the container at the parent pointer
\* replaced by new.
WithTarget(new) == SetAt(call.before, Steps(call.before, ParentTokens(call.op.path)), new)

\* C11: add with an Array target and an all-digits last token i <= length
\* returns the document with value inserted at position i of the array, the
\* later elements shifted right ('-' and i = length append); i > length
\* fails with IndexTooLarge; '-' or digits on a target that is not an Array
\* fails with the invalid-target error.
C11_AddArray ==
  TokenCall("add") =>
    \A e \in {evaluate(Heap0, Doc0, Str(ParentPointer(call.op.path)))},
       lastEl \in {LastToken(call.op.path)} :
      (e.ok /\ (lastEl = <<"-">> \/ IsDigits(lastEl))) =>
        \A target \in {Deref(Heap0, e.val)} :
          IF target.t # "arr" THEN ~call.ok /\ call.err.kind = "AddNonArrayTarget"
          ELSE \A i \in {IF lastEl = <<"-">> THEN Len(target.v) ELSE parseInt(lastEl)} :
            IF i > Len(target.v) THEN ~call.ok /\ call.err.kind = "IndexTooLarge"
            ELSE /\ call.ok
                 /\ Result = WithTarget(Arr(InsertAt(target.v, i, call.op.value)))

\* C12: add never creates intermediate containers: when the pointer formed
\* by all tokens of path but the last does not resolve in the document, add
\* throws the error evaluate raises for that pointer (KeyNotFound for a
\* missing member) and returns no document.
C12_NoIntermediate ==
  (TokenCall("add") /\ call.before.t = "obj") =>
    \A e \in {evaluate(Heap0, Doc0, Str(ParentPointer(call.op.path)))} :
      ~e.ok =>
        /\ ~call.ok
        /\ call.err = e.err
        /\ call.val = Undef
        /\ heap[1] = call.before

\* C13: remove with an Array target and an all-digits last token i succeeds
\* if and only if i < length and the element at i is truthy, and then returns
\* the document with that element taken out of the array, the later elements
\* shifted left; it throws the non-existent-element error when i is out of
\* bounds or the element is falsy; a last token '-' always throws.
C13_RemoveArray ==
  TokenCall("remove") =>
    \A e \in {evaluate(Heap0, Doc0, Str(ParentPointer(call.op.path)))},
       lastEl \in {LastToken(call.op.path)} :
      /\ lastEl = <<"-">> => (~call.ok /\ call.err.kind = "InvalidRemovePointer")
      /\ (e.ok /\ IsDigits(lastEl) /\ Deref(Heap0, e.val).t = "arr") =>
           \A a \in {Deref(Heap0, e.val).v}, i \in {parseInt(lastEl)} :
             IF i < Len(a) /\ Truthy(a[i + 1])
               THEN call.ok /\ Result = WithTarget(Arr(RemoveAt(a, i)))
               ELSE ~call.ok /\ call.err.kind = "RemoveNonExistentElement"

\* C14: remove with an Object target and a last token that is neither '-'
\* nor all digits (the empty key of path '/' included) returns the document
\* without exactly that member when the member is present, throws the
\* undefined-member error when it is absent, and never returns with the
\* addressed member still present.
C14_RemoveMember ==
  TokenCall("remove") =>
    \A e \in {evaluate(Heap0, Doc0, Str(ParentPointer(call.op.path)))},
       lastEl \in {LastToken(call.op.path)} :
      (e.ok /\ lastEl # <<"-">> /\ ~IsDigits(lastEl) /\ Deref(Heap0, e.val).t = "obj") =>
        \A o \in {Deref(Heap0, e.val).v} :
          IF lastEl \in DOMAIN o
            THEN /\ call.ok
                 /\ Result = WithTarget(Obj([key \in (DOMAIN o) \ {lastEl} |-> o[key]]))
            ELSE ~call.ok /\ call.err.kind = "RemoveUndefinedMember"

\* '/b/newKey', the path of the add of patch.spec.ts on an Object target
PathNewKey == <<"/", "b", "/", "n", "e", "w", "K", "e", "y">>

RECURSIVE SameJSON(_, _)
SameJSON(a, b) ==
  /\ a.t = b.t
  /\ CASE a.t = "arr" ->
            /\ Len(a.v) = Len(b.v)
            /\ \A i \in 1..Len(a.v) : SameJSON(a.v[i], b.v[i])
        [] a.t = "obj" ->
            /\ DOMAIN a.v = DOMAIN b.v
            /\ \A k \in DOMAIN a.v : SameJSON(a.v[k], b.v[k])
        [] OTHER -> a.v = b.v

\* C16: isEqual(a, b) is true exactly when a and b are structurally the same
\* JSON value; an array never equals an object, null never equals an object,
\* and the relation is reflexive and symmetric.
C16_IsEqual ==
  (pc = "done" /\ call.fn = "isEqual") =>
    \A a \in {call.before}, b \in {call.op.value} :
      /\ call.ok
      /\ call.val = Bool(SameJSON(a, b))
      /\ (a.t = "arr" /\ b.t = "obj") => call.val = Bool(FALSE)
      /\ (a.t = "obj" /\ b.t = "arr") => call.val = Bool(FALSE)
      /\ (a.t = "null" /\ b.t = "obj") => call.val = Bool(FALSE)
      /\ (a.t = "obj" /\ b.t = "null") => call.val = Bool(FALSE)
      /\ isEqual(a, a) /\ isEqual(b, b)
      /\ isEqual(b, a) = call.val.v
      /\ heap[1] = call.before

\* isEqual returned true for two separate copies of a nested document, and
\* the operands are not primitives.
C16_Witness ==
  /\ Returned
  /\ call.fn = "isEqual"
  /\ call.before = DocInitial
  /\ call.op.value = DocInitial
  /\ call.val = Bool(TRUE)

\* C17: unescapeToken inverts escapeToken: unescapeToken(escapeToken(s)) = s
\* for every string s; '~1' decodes to '/', '~0' to '~' and '~01' to '~1';
\* evaluate reaches a member of the root whose key contains '/' or '~'
\* through the pointer '/' followed by the escaped key.
C17_UnescapeInvertsEscape ==
  /\ (pc = "done" /\ call.fn = "escapeToken") =>
       (call.ok /\ unescapeToken(call.val.v) = call.op.path)
  /\ (pc = "done" /\ call.fn = "unescapeToken") =>
       /\ call.op.path = <<"~", "1">> => call.val = Str(<<"/">>)
       /\ call.op.path = <<"~", "0">> => call.val = Str(<<"~">>)
       /\ call.op.path = <<"~", "0", "1">> => call.val = Str(<<"~", "1">>)
       /\ \A str \in Tokens : escapeToken(str) = call.op.path => call.val = Str(str)
  /\ (pc = "done" /\ call.fn = "evaluate" /\ call.before.t = "obj") =>
       \A key \in DOMAIN call.before.v :
         call.op.path = <<"/">> \o escapeToken(key) =>
           (call.ok /\ Result = call.before.v[key])

\* escapeToken was called on '~1' and returned '~01'.
C17_Witness ==
  /\ Returned
  /\ call.fn = "escapeToken"
  /\ call.op.path = <<"~", "1">>
  /\ call.val = Str(<<"~", "0", "1">>)

\* evaluate returned the member '~1' of the root for the pointer '/~01'.
C17_WitnessEvaluate ==
  /\ Returned
  /\ call.fn = "evaluate"
  /\ call.op.path = <<"/", "~", "0", "1">>
  /\ call.val = Num(4)

\* C18: read after write.  For a path whose last token is neither '-' nor
\* all digits (the empty token of '/' included) and whose parent pointer
\* resolves under evaluate to an Object, add succeeds and sets the member
\* named by the last token on that Object and changes nothing else, so that
\* evaluate(result, path) returns value; also with the escapes ~1 and ~0 in
\* the earlier tokens.
C18_ReadAfterWrite ==
  TokenCall("add") =>
    \A e \in {evaluate(Heap0, Doc0, Str(ParentPointer(call.op.path)))},
       lastEl \in {LastToken(call.op.path)} :
      (e.ok /\ lastEl # <<"-">> /\ ~IsDigits(lastEl) /\ Deref(Heap0, e.val).t = "obj") =>
        /\ call.ok
        /\ Result = WithTarget(Obj((lastEl :> call.op.value) @@ Deref(Heap0, e.val).v))
        /\ \A w \in {evaluate(heap, call.val, Str(call.op.path))} :
             w.ok /\ Deref(heap, w.val) = call.op.value

====
